---- MODULE Spec2Model ----
(***************************************************************************)
(* DAPERL workflow (daperl/workflows/daperl_workflow.py): the driver      *)
(* coroutine DAPERLWorkflow.run, its two signal handlers and its queries,  *)
(* together with the six built-in agents the activities run.              *)
(*                                                                         *)
(* The driver is modelled between its suspension points: each             *)
(* execute_activity await (one attempt of the activity in flight at a      *)
(* time, retried under the retry policy) and the wait_condition of the     *)
(* approval gate.  Signals are delivered between those steps.  A signal    *)
(* that makes the gate's predicate true wakes the driver in the same       *)
(* workflow task, so the handler and the driver's resumption are one step. *)
(* wait_condition raises asyncio.TimeoutError when its timeout elapses;    *)
(* run catches it with `except Exception`.                                 *)
(***************************************************************************)
EXTENDS Naturals, Sequences, FiniteSets, TLC

\* ---------------------------------------------------------------- bounds
MaxProblems == 1

MaxActions == 2

\* RetryPolicy(maximum_attempts=3)
MaxAttempts == 3

\* confidences are the fractions n / ConfidenceSteps
ConfidenceSteps == 100

\* store calls made on the learning storage, of either kind
MaxStores == 3

\* activities using the learning storage at the same time
NumCallers == 2

\* timed-out attempts still running in a worker at the same time
MaxAbandoned == 2

\* insights the LLM response of one Learning attempt lists
MaxInsights == 1

\* get_recent_metrics(limit=10) in LearningAgent.execute
RecentLimit == 10

\* ---------------------------------------------------------------- types
Phases == <<"detection", "analysis", "planning", "execution", "reporting", "learning">>

PhaseSet == {Phases[i] : i \in 1..Len(Phases)}

WorkflowStatus ==
    {"INITIALIZING", "DETECTING", "ANALYZING", "PLANNING", "PENDING_APPROVAL",
     "EXECUTING", "REPORTING", "LEARNING", "COMPLETED", "FAILED", "CANCELLED"}

\* Python's None
None == [phase |-> "None"]

\* 1..n as a sequence: the ids of n list elements
Ids(n) == [i \in 1..n |-> i]

\* the two lists JSONLearningStorage keeps, each in a file of its own
Kinds == {"metric", "insight"}

\* each caller is an activity with the JSONLearningStorage it created
Callers == 1..NumCallers

VARIABLES
    status,         \* self._status
    result,         \* self._<phase>_result, keyed by phase
    plan_approved,  \* self._plan_approved
    history,        \* context.history
    auto_approve,   \* input.auto_approve
    pc,             \* where the driver is suspended
    attempt,        \* attempt number of the activity in flight
    returned,       \* the DAPERLResult run() returned, None before
    invoked,        \* phases whose activity the driver has scheduled
    log,            \* what was delivered to the run, and when
    call,           \* the query or agent call answered since the last step, or None
    files,          \* metrics.json and insights.json
    buf,            \* each caller's store call in flight, or None
    stored,         \* per kind, the items of the store calls that returned, in order
    overlapped,     \* two store calls have been in flight together
    abandoned,      \* timed-out attempts whose coroutine still runs in a worker
    learn           \* how far the Learning attempt in flight has come, or None

\* the learning storage and its callers
storeVars == <<files, buf, stored, overlapped>>

\* what lives in the workers and not in the workflow
workerVars == <<files, buf, stored, overlapped, abandoned, learn>>

vars == <<status, result, plan_approved, history, auto_approve, pc, attempt,
          returned, invoked, log, call, files, buf, stored, overlapped,
          abandoned, learn>>

\* the orchestrator's own fields, without the observation variables
progVars == <<status, result, plan_approved, history, auto_approve, pc, attempt,
              returned>>

\* ---------------------------------------------------------------- agents
\* the first result of the phase in context.history, else None
GetResult(h, phase) ==
    IF \E i \in 1..Len(h) : h[i].phase = phase
    THEN h[CHOOSE i \in 1..Len(h) :
               /\ h[i].phase = phase
               /\ \A j \in 1..(i - 1) : h[j].phase # phase]
    ELSE None

\* DetectionAgent.execute that takes a successful detection for a problem
DetectionExecuteMut(n) ==
    [phase |-> "detection", success |-> TRUE,
     problems_detected |-> TRUE, problems |-> Ids(n)]

\* DetectionAgent.execute on an LLM response listing n problems
DetectionExecute(n) ==
    [phase |-> "detection", success |-> TRUE,
     problems_detected |-> n > 0, problems |-> Ids(n)]

\* AnalysisAgent.execute
AnalysisExecute(h) ==
    LET detection_result == GetResult(h, "detection") IN
    IF detection_result = None \/ Len(detection_result.problems) = 0
    THEN [phase |-> "analysis", success |-> TRUE,
          message |-> "No problems to analyze", analyzed_problems |-> <<>>]
    ELSE [phase |-> "analysis", success |-> TRUE,
          message |-> "Analysis complete",
          analyzed_problems |-> detection_result.problems]

\* PlanningAgent._parse_plan on a response whose plan lists k actions
ParsePlan(k) == [id |-> "plan", actions |-> Ids(k)]

\* PlanningAgent.execute on an LLM response whose plan lists k actions
PlanningExecute(h, k) ==
    LET analysis_result == GetResult(h, "analysis") IN
    IF analysis_result = None \/ Len(analysis_result.analyzed_problems) = 0
    THEN [phase |-> "planning", success |-> TRUE,
          message |-> "No problems to plan for", plan |-> None]
    ELSE [phase |-> "planning", success |-> TRUE,
          message |-> "Plan created", plan |-> ParsePlan(k)]

\* a confidence, a float in [0, 1], as a fraction
Frac(n, d) == [num |-> n, den |-> d]

\* c >= n / 10
AtLeastTenths(c, n) == c.num * 10 >= n * c.den

\* _get_confidence_level with the boundaries given to the lower level
GetConfidenceLevelMut(confidence) ==
    IF confidence.num * 10 > 9 * confidence.den THEN "very_high"
    ELSE IF confidence.num * 10 > 7 * confidence.den THEN "high"
    ELSE IF confidence.num * 10 > 5 * confidence.den THEN "medium"
    ELSE "low"

\* BaseAgent._get_confidence_level
GetConfidenceLevel(confidence) ==
    IF AtLeastTenths(confidence, 9) THEN "very_high"
    ELSE IF AtLeastTenths(confidence, 7) THEN "high"
    ELSE IF AtLeastTenths(confidence, 5) THEN "medium"
    ELSE "low"

\* the confidence fields of a result built from an LLM response that gives
\* confidence c (Detection, Analysis, Planning, Reporting, Learning)
LLMEnvelope(c) ==
    [confidence |-> c, confidence_level |-> GetConfidenceLevel(c)]

\* the confidence fields of the results 'No problems to analyze' and
\* 'No problems to plan for'
ShortcutEnvelope ==
    [confidence |-> Frac(1, 1), confidence_level |-> "very_high"]

\* what each action of a plan does when it is run
Outcomes == {"ok", "failed", "raised"}

\* ActionResultOf that runs the action after the one it was given
ActionResultOfMut(action, outcome) ==
    [action_id |-> action + 1, success |-> outcome = "ok",
     error |-> IF outcome = "raised" THEN "error" ELSE "None"]

\* the ActionResult of one action
ActionResultOf(action, outcome) ==
    [action_id |-> action, success |-> outcome = "ok",
     error |-> IF outcome = "raised" THEN "error" ELSE "None"]

\* CountSuccess that counts every result
CountSuccessMut(rs, flag) == Len(rs)

\* the number of ActionResults with the given success flag
CountSuccess(rs, flag) == Cardinality({i \in 1..Len(rs) : rs[i].success = flag})

\* the index of the first action that raises, 0 when none does
FirstRaised(outs, n) ==
    IF \E i \in 1..n : outs[i] = "raised"
    THEN CHOOSE i \in 1..n :
             outs[i] = "raised" /\ \A j \in 1..(i - 1) : outs[j] # "raised"
    ELSE 0

\* ExecutionAgent.execute without the per-action try/except: the first action
\* that raises ends the loop, and is counted as the one failure
ExecutionExecuteMut(h, outs) ==
    LET planning_result == GetResult(h, "planning") IN
    IF planning_result = None \/ planning_result.plan = None
    THEN [phase |-> "execution", success |-> TRUE, plan_id |-> "none",
          actions_executed |-> <<>>, success_count |-> 0, failure_count |-> 0,
          confidence |-> Frac(1, 1), confidence_level |-> "very_high"]
    ELSE LET plan == planning_result.plan
             first == FirstRaised(outs, Len(plan.actions))
             ran == IF first = 0 THEN Len(plan.actions) ELSE first
             actions_executed ==
                 [i \in 1..ran |-> ActionResultOf(plan.actions[i], outs[i])]
             failure_count == CountSuccess(actions_executed, FALSE)
             success_count == CountSuccess(actions_executed, TRUE)
             confidence ==
                 IF Len(actions_executed) > 0
                 THEN Frac(success_count, Len(actions_executed))
                 ELSE Frac(0, 1)
         IN [phase |-> "execution", success |-> failure_count = 0,
             plan_id |-> plan.id, actions_executed |-> actions_executed,
             success_count |-> success_count,
             failure_count |-> failure_count,
             confidence |-> confidence,
             confidence_level |-> GetConfidenceLevel(confidence)]

\* ExecutionAgent.execute, outs[i] being what the i-th action does
ExecutionExecute(h, outs) ==
    LET planning_result == GetResult(h, "planning") IN
    IF planning_result = None \/ planning_result.plan = None
    THEN [phase |-> "execution", success |-> TRUE, plan_id |-> "none",
          actions_executed |-> <<>>, success_count |-> 0, failure_count |-> 0,
          confidence |-> Frac(1, 1), confidence_level |-> "very_high"]
    ELSE LET plan == planning_result.plan
             actions_executed ==
                 [i \in 1..Len(plan.actions) |->
                     ActionResultOf(plan.actions[i], outs[i])]
             failure_count == CountSuccess(actions_executed, FALSE)
             success_count == CountSuccess(actions_executed, TRUE)
             confidence ==
                 IF Len(actions_executed) > 0
                 THEN Frac(success_count, Len(actions_executed))
                 ELSE Frac(0, 1)
         IN [phase |-> "execution", success |-> failure_count = 0,
             plan_id |-> plan.id, actions_executed |-> actions_executed,
             success_count |-> success_count,
             failure_count |-> failure_count,
             confidence |-> confidence,
             confidence_level |-> GetConfidenceLevel(confidence)]

\* ReportingAgent.execute
ReportingExecute(h) ==
    [phase |-> "reporting", success |-> TRUE,
     reported |-> {h[i].phase : i \in 1..Len(h)}]

\* LearningAgent.execute
LearningExecute(h) ==
    [phase |-> "learning", success |-> TRUE,
     learned |-> {h[i].phase : i \in 1..Len(h)}]

\* ---------------------------------------------------------------- queries
\* get_status that takes the approval for the end of the execution
GetStatusMut ==
    [status |-> status,
     detection_complete |-> result["detection"] # None,
     analysis_complete |-> result["analysis"] # None,
     planning_complete |-> result["planning"] # None,
     execution_complete |-> plan_approved,
     reporting_complete |-> result["reporting"] # None,
     learning_complete |-> result["learning"] # None,
     plan_approved |-> plan_approved]

\* DAPERLWorkflow.get_status
GetStatus ==
    [status |-> status,
     detection_complete |-> result["detection"] # None,
     analysis_complete |-> result["analysis"] # None,
     planning_complete |-> result["planning"] # None,
     execution_complete |-> result["execution"] # None,
     reporting_complete |-> result["reporting"] # None,
     learning_complete |-> result["learning"] # None,
     plan_approved |-> plan_approved]

\* get_plan that gives the plan only while the run waits for the approval
GetPlanMut ==
    IF status = "PENDING_APPROVAL" /\ result["planning"] # None
       /\ result["planning"].plan # None
    THEN result["planning"].plan
    ELSE None

\* DAPERLWorkflow.get_plan
GetPlan ==
    IF result["planning"] # None /\ result["planning"].plan # None
    THEN result["planning"].plan
    ELSE None

\* DAPERLWorkflow.get_results
GetResults == result

\* _build_result that leaves the per-phase results out
BuildResultMut(st, res, summary) ==
    [phase |-> "workflow", status |-> st,
     results |-> [p \in PhaseSet |-> None], summary |-> summary]

\* DAPERLWorkflow._build_result
BuildResult(st, res, summary) ==
    [phase |-> "workflow", status |-> st, results |-> res, summary |-> summary]

\* ---------------------------------------------------------------- driver
\* __init__ that starts with the plan approved
InitMut ==
    /\ status = "INITIALIZING"
    /\ result = [p \in PhaseSet |-> None]
    /\ plan_approved = TRUE
    /\ history = <<>>
    /\ auto_approve \in BOOLEAN
    /\ pc = "init"
    /\ attempt = 0
    /\ returned = None
    /\ invoked = {}
    /\ log = {}
    /\ call = None
    /\ files = [kind \in Kinds |-> [data |-> <<>>, torn |-> FALSE]]
    /\ buf = [c \in Callers |-> None]
    /\ stored = [kind \in Kinds |-> <<>>]
    /\ overlapped = FALSE
    /\ abandoned = {}
    /\ learn = None

\* DAPERLWorkflow.__init__, and the stores of JSONLearningStorage empty
Init ==
    /\ status = "INITIALIZING"
    /\ result = [p \in PhaseSet |-> None]
    /\ plan_approved = FALSE
    /\ history = <<>>
    /\ auto_approve \in BOOLEAN
    /\ pc = "init"
    /\ attempt = 0
    /\ returned = None
    /\ invoked = {}
    /\ log = {}
    /\ call = None
    /\ files = [kind \in Kinds |-> [data |-> <<>>, torn |-> FALSE]]
    /\ buf = [c \in Callers |-> None]
    /\ stored = [kind \in Kinds |-> <<>>]
    /\ overlapped = FALSE
    /\ abandoned = {}
    /\ learn = None

\* Truthy that takes None for a plan too
TruthyMut(plan) == TRUE

\* the truth value Python gives an Optional[ExecutionPlan]: a pydantic model
\* defines neither __bool__ nor __len__, so every plan object is true
Truthy(plan) == plan # None

\* GateRequired with the auto_approve test left out
GateRequiredMut(auto, planning_result) == Truthy(planning_result.plan)

\* the condition of the approval gate (run, `if not input.auto_approve and ...`)
GateRequired(auto, planning_result) == ~auto /\ Truthy(planning_result.plan)

\* NoProblems with the early exit never taken
NoProblemsMut(detection_result) == FALSE

\* the condition of the early exit after Detection
NoProblems(detection_result) == ~detection_result.problems_detected

\* run() up to the first execute_activity
Start ==
    /\ pc = "init"
    /\ status' = "DETECTING"
    /\ history' = <<>>
    /\ pc' = "detection"
    /\ attempt' = 1
    /\ invoked' = invoked \cup {"detection"}
    /\ UNCHANGED <<result, plan_approved, auto_approve, returned, log>>
    /\ call' = None /\ UNCHANGED workerVars

\* execute_activity(run_<phase>_agent, ...): the driver sets the status and
\* suspends on the first attempt of the activity
Invoke(phase, st) ==
    /\ status' = st
    /\ pc' = phase
    /\ attempt' = 1
    /\ invoked' = invoked \cup {phase}

\* Return that builds the result before it assigns the final status
ReturnMut(st, res, summary) ==
    /\ status' = st
    /\ returned' = BuildResult(status, res, summary)
    /\ pc' = "done"
    /\ attempt' = 0

\* run() returns the DAPERLResult built from the fields as just assigned
Return(st, res, summary) ==
    /\ status' = st
    /\ returned' = BuildResult(st, res, summary)
    /\ pc' = "done"
    /\ attempt' = 0

\* the Detection activity returns: run() lines 89-108
DetectionDone ==
    /\ pc = "detection"
    /\ \E n \in 0..MaxProblems :
          LET r == DetectionExecute(n)
              res == [result EXCEPT !["detection"] = r]
          IN /\ result' = res
             /\ history' = Append(history, r)
             /\ IF NoProblems(r)
                THEN /\ Return("COMPLETED", res, "No problems detected")
                     /\ UNCHANGED invoked
                ELSE /\ Invoke("analysis", "ANALYZING")
                     /\ UNCHANGED returned
    /\ UNCHANGED <<plan_approved, auto_approve, log>>
    /\ call' = None /\ UNCHANGED workerVars

\* AnalysisDone that moves on to Planning without recording its result
AnalysisDoneMut ==
    /\ pc = "analysis"
    /\ history' = Append(history, AnalysisExecute(history))
    /\ Invoke("planning", "PLANNING")
    /\ UNCHANGED <<result, plan_approved, auto_approve, returned, log>>
    /\ call' = None /\ UNCHANGED workerVars

\* the Analysis activity returns: run() lines 111-124
AnalysisDone ==
    /\ pc = "analysis"
    /\ LET r == AnalysisExecute(history) IN
          /\ result' = [result EXCEPT !["analysis"] = r]
          /\ history' = Append(history, r)
    /\ Invoke("planning", "PLANNING")
    /\ UNCHANGED <<plan_approved, auto_approve, returned, log>>
    /\ call' = None /\ UNCHANGED workerVars

\* PlanningDone that skips the gate without setting the flag
PlanningDoneMut ==
    /\ pc = "planning"
    /\ \E k \in 0..MaxActions :
          LET r == PlanningExecute(history, k) IN
             /\ result' = [result EXCEPT !["planning"] = r]
             /\ history' = Append(history, r)
             /\ IF GateRequired(auto_approve, r)
                THEN IF plan_approved
                     THEN /\ Invoke("execution", "EXECUTING")
                          /\ UNCHANGED plan_approved
                     ELSE /\ status' = "PENDING_APPROVAL"
                          /\ pc' = "gate"
                          /\ attempt' = 0
                          /\ UNCHANGED <<plan_approved, invoked>>
                ELSE /\ UNCHANGED plan_approved
                     /\ Invoke("execution", "EXECUTING")
    /\ UNCHANGED <<auto_approve, returned, log>>
    /\ call' = None /\ UNCHANGED workerVars

\* the Planning activity returns: run() lines 127-161, through the gate when
\* it does not block
PlanningDone ==
    /\ pc = "planning"
    /\ \E k \in 0..MaxActions :
          LET r == PlanningExecute(history, k) IN
             /\ result' = [result EXCEPT !["planning"] = r]
             /\ history' = Append(history, r)
             /\ IF GateRequired(auto_approve, r)
                THEN IF plan_approved
                     THEN \* wait_condition finds its predicate true
                          /\ Invoke("execution", "EXECUTING")
                          /\ UNCHANGED plan_approved
                     ELSE /\ status' = "PENDING_APPROVAL"
                          /\ pc' = "gate"
                          /\ attempt' = 0
                          /\ UNCHANGED <<plan_approved, invoked>>
                ELSE /\ plan_approved' = TRUE
                     /\ Invoke("execution", "EXECUTING")
    /\ UNCHANGED <<auto_approve, returned, log>>
    /\ call' = None /\ UNCHANGED workerVars

\* ExecutionDone that treats a result with success = false as a failure of
\* the run
ExecutionDoneMut ==
    /\ pc = "execution"
    /\ \E outs \in [1..MaxActions -> Outcomes] :
          LET r == ExecutionExecute(history, outs)
              res == [result EXCEPT !["execution"] = r]
          IN /\ result' = res
             /\ history' = Append(history, r)
             /\ IF r.success
                THEN Invoke("reporting", "REPORTING") /\ UNCHANGED returned
                ELSE Return("FAILED", res, "Workflow failed: execution")
                     /\ UNCHANGED invoked
    /\ UNCHANGED <<plan_approved, auto_approve, log>>
    /\ call' = None /\ UNCHANGED workerVars

\* the Execution activity returns: run() lines 164-178
ExecutionDone ==
    /\ pc = "execution"
    /\ \E outs \in [1..MaxActions -> Outcomes] :
          LET r == ExecutionExecute(history, outs) IN
             /\ result' = [result EXCEPT !["execution"] = r]
             /\ history' = Append(history, r)
    /\ Invoke("reporting", "REPORTING")
    /\ UNCHANGED <<plan_approved, auto_approve, returned, log>>
    /\ call' = None /\ UNCHANGED workerVars

\* ReportingDone that keeps its result out of the history
ReportingDoneMut ==
    /\ pc = "reporting"
    /\ LET r == ReportingExecute(history) IN
          /\ result' = [result EXCEPT !["reporting"] = r]
          /\ history' = history
    /\ Invoke("learning", "LEARNING")
    /\ UNCHANGED <<plan_approved, auto_approve, returned, log>>
    /\ call' = None /\ UNCHANGED workerVars

\* the Reporting activity returns: run() lines 181-192
ReportingDone ==
    /\ pc = "reporting"
    /\ LET r == ReportingExecute(history) IN
          /\ result' = [result EXCEPT !["reporting"] = r]
          /\ history' = Append(history, r)
    /\ Invoke("learning", "LEARNING")
    /\ UNCHANGED <<plan_approved, auto_approve, returned, log>>
    /\ call' = None /\ UNCHANGED workerVars

\* LearningDone that builds the workflow result before it records its own
LearningDoneMut ==
    /\ pc = "learning"
    /\ LET r == LearningExecute(history) IN
          /\ result' = [result EXCEPT !["learning"] = r]
          /\ history' = Append(history, r)
          /\ Return("COMPLETED", result, "Workflow completed successfully")
    /\ UNCHANGED <<plan_approved, auto_approve, invoked, log>>
    /\ call' = None /\ UNCHANGED workerVars

\* the Learning activity returns: run() lines 195-211
LearningDone ==
    /\ pc = "learning"
    /\ LET r == LearningExecute(history)
           res == [result EXCEPT !["learning"] = r]
       IN /\ result' = res
          /\ history' = Append(history, r)
          /\ Return("COMPLETED", res, "Workflow completed successfully")
    /\ UNCHANGED <<plan_approved, auto_approve, invoked, log>>
    /\ call' = None /\ UNCHANGED workerVars

\* ActivityRetry that starts one attempt more than the policy allows
ActivityRetryMut ==
    /\ pc \in PhaseSet
    /\ attempt <= MaxAttempts
    /\ attempt' = attempt + 1
    /\ UNCHANGED <<status, result, plan_approved, history, auto_approve, pc,
                   returned, invoked, log>>
    /\ call' = None /\ UNCHANGED workerVars

\* an attempt of the activity in flight fails (exception, timeout, failed
\* validation) and the retry policy starts the next one
ActivityRetry ==
    /\ pc \in PhaseSet
    /\ attempt < MaxAttempts
    /\ attempt' = attempt + 1
    /\ UNCHANGED <<status, result, plan_approved, history, auto_approve, pc,
                   returned, invoked, log>>
    /\ call' = None /\ UNCHANGED workerVars

\* ActivityExhausted that returns without the results gathered so far
ActivityExhaustedMut ==
    /\ pc \in PhaseSet
    /\ attempt = MaxAttempts
    /\ Return("FAILED", [p \in PhaseSet |-> None],
              "Workflow failed: Activity task failed")
    /\ log' = log \cup {"exhausted"}
    /\ UNCHANGED <<result, plan_approved, history, auto_approve, invoked>>
    /\ call' = None /\ UNCHANGED workerVars

\* the last attempt fails: execute_activity raises, run() lines 213-216
ActivityExhausted ==
    /\ pc \in PhaseSet
    /\ attempt = MaxAttempts
    /\ Return("FAILED", result, "Workflow failed: Activity task failed")
    /\ log' = log \cup {"exhausted"}
    /\ UNCHANGED <<result, plan_approved, history, auto_approve, invoked>>
    /\ call' = None /\ UNCHANGED workerVars

\* ApprovalTimeout of a wait_condition called without a timeout: the gate
\* keeps waiting
ApprovalTimeoutMut ==
    /\ pc = "gate"
    /\ ~plan_approved
    /\ UNCHANGED vars

\* the gate's timeout elapses with the predicate false: wait_condition raises
\* asyncio.TimeoutError (whose str() is empty), run() lines 145-148, 213-216
ApprovalTimeout ==
    /\ pc = "gate"
    /\ ~plan_approved
    /\ Return("FAILED", result, "Workflow failed: ")
    /\ log' = log \cup {"gate_timeout"}
    /\ UNCHANGED <<result, plan_approved, history, auto_approve, invoked>>
    /\ call' = None /\ UNCHANGED workerVars

\* ---------------------------------------------------------------- signals
\* a signal reaches a run that has started and not yet returned
Running == pc \notin {"init", "done"}

\* ApprovePlan that sets the flag without waking the driver at the gate
ApprovePlanMut ==
    /\ Running
    /\ plan_approved' = TRUE
    /\ log' = log \cup {IF status = "PENDING_APPROVAL"
                        THEN "approve_pending" ELSE "approve_other"}
    /\ UNCHANGED <<status, pc, attempt, invoked, result, history,
                   auto_approve, returned>>
    /\ call' = None /\ UNCHANGED workerVars

\* DAPERLWorkflow.approve_plan; at the gate the driver resumes, run() 155-169
ApprovePlan ==
    /\ Running
    /\ plan_approved' = TRUE
    /\ IF pc = "gate"
       THEN Invoke("execution", "EXECUTING")
       ELSE UNCHANGED <<status, pc, attempt, invoked>>
    /\ log' = log \cup {IF status = "PENDING_APPROVAL"
                        THEN "approve_pending" ELSE "approve_other"}
    /\ UNCHANGED <<result, history, auto_approve, returned>>
    /\ call' = None /\ UNCHANGED workerVars

\* CancelWorkflow that puts the run back to waiting for a decision
CancelWorkflowMut ==
    /\ Running
    /\ status' = "PENDING_APPROVAL"
    /\ log' = log \cup {IF status = "PENDING_APPROVAL"
                        THEN "cancel_pending"
                        ELSE IF pc \in PhaseSet THEN "cancel_stage"
                        ELSE "cancel_other"}
    /\ UNCHANGED <<result, plan_approved, history, auto_approve, pc, attempt,
                   returned, invoked>>
    /\ call' = None /\ UNCHANGED workerVars

\* DAPERLWorkflow.cancel_workflow
CancelWorkflow ==
    /\ Running
    /\ status' = "CANCELLED"
    /\ log' = log \cup {IF status = "PENDING_APPROVAL"
                        THEN "cancel_pending"
                        ELSE IF pc \in PhaseSet THEN "cancel_stage"
                        ELSE "cancel_other"}
    /\ UNCHANGED <<result, plan_approved, history, auto_approve, pc, attempt,
                   returned, invoked>>
    /\ call' = None /\ UNCHANGED workerVars

Next ==
    \/ Start
    \/ DetectionDone
    \/ AnalysisDone
    \/ PlanningDone
    \/ ExecutionDone
    \/ ReportingDone
    \/ LearningDone
    \/ ActivityRetry
    \/ ActivityExhausted
    \/ ApprovalTimeout
    \/ ApprovePlan
    \/ CancelWorkflow

Spec == Init /\ [][Next]_vars

\* the driver's steps: every attempt of an activity ends, and the gate's
\* timer fires unless the gate was passed
DriverStep ==
    \/ Start
    \/ DetectionDone
    \/ AnalysisDone
    \/ PlanningDone
    \/ ExecutionDone
    \/ ReportingDone
    \/ LearningDone
    \/ ActivityRetry
    \/ ActivityExhausted

FairSpec == Spec /\ WF_vars(DriverStep) /\ WF_vars(ApprovalTimeout)

TypeOK ==
    /\ status \in WorkflowStatus
    /\ plan_approved \in BOOLEAN
    /\ pc \in PhaseSet \cup {"init", "gate", "done"}
    /\ attempt \in 0..MaxAttempts
    /\ invoked \subseteq PhaseSet

\* ---------------------------------------------------------------- properties
Terminal == {"COMPLETED", "FAILED", "CANCELLED"}

AfterPlanning == {"execution", "reporting", "learning"}

\* a plan with at least one action
Actionable(planning_result) ==
    /\ planning_result.plan # None
    /\ Len(planning_result.plan.actions) >= 1

NoCancel == log \cap {"cancel_pending", "cancel_stage", "cancel_other"} = {}

\* the step in which the Planning activity returns
PlanningReturns == pc = "planning" /\ result'["planning"] # None

\* C1: once cancel_workflow has been delivered to a run whose status is
\* PENDING_APPROVAL, no Execution, Reporting or Learning result is recorded
\* and the run, when it returns, returns status CANCELLED.
C1_CancelAtGate ==
    "cancel_pending" \in log =>
        /\ \A p \in AfterPlanning : result[p] = None /\ p \notin invoked
        /\ pc = "done" => returned.status = "CANCELLED"

\* C2: when the gate's timeout elapses before an approval, the run returns
\* status CANCELLED, and no Execution, Reporting or Learning result exists.
C2_TimeoutCancels ==
    "gate_timeout" \in log =>
        /\ pc = "done"
        /\ returned.status = "CANCELLED"
        /\ \A p \in AfterPlanning : result[p] = None

\* C3: once get_status reports COMPLETED, FAILED or CANCELLED it reports the
\* same status ever after, and no further stage is invoked.
C3_TerminalAbsorbing ==
    [][GetStatus.status \in Terminal =>
          /\ GetStatus'.status = GetStatus.status
          /\ invoked' = invoked]_vars

\* C4: after cancel_workflow was delivered while a stage was in flight, no
\* further stage is invoked and the run returns status CANCELLED.
C4_CancelObserved ==
    []["cancel_stage" \in log =>
          /\ invoked' = invoked
          /\ pc' = "done" => returned'.status = "CANCELLED"]_vars

\* C5: without auto-approval, when Planning returns a plan with at least one
\* action the status becomes PENDING_APPROVAL, and it stays PENDING_APPROVAL,
\* no stage being invoked, until an approve signal, a cancel signal or the
\* gate's timeout occurs.
C5_GateEntryAndHold ==
    [][/\ (PlanningReturns /\ ~auto_approve /\ Actionable(result'["planning"]))
            => status' = "PENDING_APPROVAL"
       /\ (status = "PENDING_APPROVAL" /\ status' # "PENDING_APPROVAL")
            => (ApprovePlan \/ CancelWorkflow \/ ApprovalTimeout)
       /\ status = "PENDING_APPROVAL"
            => (invoked' = invoked \/ ApprovePlan)]_vars

\* C6: an approve_plan signal delivered while the status is not
\* PENDING_APPROVAL changes nothing of the orchestrator's state.
C6_ApproveNoOpOutsideGate ==
    [][(ApprovePlan /\ status # "PENDING_APPROVAL") => UNCHANGED progVars]_vars

\* C7: without auto-approval, when Planning returned no plan or a plan with
\* no action, the status is never PENDING_APPROVAL, plan_approved is true and
\* Execution has been invoked.
C7_GateSkippedWithoutActions ==
    (~auto_approve /\ result["planning"] # None
        /\ ~Actionable(result["planning"])) =>
        /\ status # "PENDING_APPROVAL"
        /\ plan_approved
        /\ "execution" \in invoked

\* C8: when the Detection result reports no problems the run has returned
\* COMPLETED with summary 'No problems detected', no later stage was invoked
\* and no later result exists.
C8_DetectionEarlyExit ==
    (result["detection"] # None /\ ~result["detection"].problems_detected) =>
        /\ pc = "done"
        /\ status = "COMPLETED"
        /\ returned.status = "COMPLETED"
        /\ returned.summary = "No problems detected"
        /\ invoked = {"detection"}
        /\ \A p \in PhaseSet \ {"detection"} :
              result[p] = None /\ returned.results[p] = None

C8_Witness ==
    /\ pc = "done"
    /\ result["detection"] # None
    /\ ~result["detection"].problems_detected

C10_ApproveThenResume ==
    /\ [][(ApprovePlan /\ status = "PENDING_APPROVAL")
            => (status' = "EXECUTING" /\ pc' = "execution")]_vars
    /\ [](("approve_pending" \in log /\ NoCancel) => status # "CANCELLED")
    /\ ("approve_pending" \in log) ~>
           (pc = "done" /\ ("exhausted" \in log \/ returned.status = "COMPLETED"))

C10_Witness ==
    /\ "approve_pending" \in log
    /\ NoCancel
    /\ pc = "done"
    /\ returned.status = "COMPLETED"

\* the position of a phase in the fixed phase order
PhaseIndex(phase) == CHOOSE i \in 1..Len(Phases) : Phases[i] = phase

\* the step in which execute_activity raises after the last attempt
ExhaustionStep == "exhausted" \notin log /\ "exhausted" \in log'

\* C11: when the third attempt of the stage of phase p fails, the run returns
\* status FAILED with a summary 'Workflow failed: ...'; the returned result
\* holds the results of the phases before p and none for p or a later phase,
\* and no stage is invoked afterwards.
C11_RetryExhaustion ==
    /\ [][ExhaustionStep =>
             /\ attempt = MaxAttempts
             /\ pc' = "done"
             /\ status' = "FAILED"
             /\ returned'.status = "FAILED"
             /\ returned'.summary = "Workflow failed: Activity task failed"
             /\ \A q \in PhaseSet :
                   IF PhaseIndex(q) < PhaseIndex(pc)
                   THEN /\ returned'.results[q] # None
                        /\ returned'.results[q] = GetResult(history, q)
                   ELSE returned'.results[q] = None]_vars
    /\ []["exhausted" \in log => invoked' = invoked]_vars

C11_Witness ==
    /\ "exhausted" \in log
    /\ pc = "done"
    /\ returned.status = "FAILED"
    /\ returned.results["planning"] # None
    /\ returned.results["execution"] = None

\* C12: a stage in flight is on attempt 1, 2 or 3 and has no result yet; an
\* attempt after the first starts only in a step in which the previous attempt
\* of the same stage failed, leaving every result as it was; a stage starts
\* on attempt 1 and only once.
C12_RetryBound ==
    /\ [](pc \in PhaseSet =>
             /\ attempt \in 1..MaxAttempts
             /\ result[pc] = None)
    /\ [][pc' \in PhaseSet =>
             IF pc' = pc
             THEN \/ attempt' = attempt
                  \/ /\ attempt' = attempt + 1
                     /\ ActivityRetry
                     /\ result' = result /\ history' = history
             ELSE attempt' = 1 /\ pc' \notin invoked]_vars
    /\ [][\A p \in PhaseSet :
             (result[p] = None /\ result'[p] # None) => (pc = p /\ pc' # p)]_vars

C12_Witness ==
    /\ pc = "execution"
    /\ attempt = MaxAttempts

\* the step in which the Execution activity returns
ExecutionReturns == pc = "execution" /\ result'["execution"] # None

\* C13: a stage result with success = false is recorded in the step in which
\* the attempt returns, without a further attempt; it is appended to the
\* history as it is and the next phase is invoked; a run with such a result
\* keeps it in the history and in what it returns.
C13_BusinessFailurePassedOn ==
    /\ [][(ExecutionReturns /\ ~result'["execution"].success) =>
             /\ result'["execution"].failure_count > 0
             /\ history' = Append(history, result'["execution"])
             /\ pc' = "reporting" /\ status' = "REPORTING" /\ attempt' = 1
             /\ "reporting" \in invoked']_vars
    /\ [](\A p \in PhaseSet :
             (result[p] # None /\ ~result[p].success) =>
                 /\ GetResult(history, p) = result[p]
                 /\ pc # p
                 /\ pc = "done" => returned.results[p] = result[p])

C13_Witness ==
    /\ pc = "done"
    /\ returned.status = "COMPLETED"
    /\ returned.results["execution"] # None
    /\ ~returned.results["execution"].success
    /\ returned.results["execution"].failure_count > 0
    /\ returned.results["learning"] # None

\* ---------------------------------------------------------------- queries
\* what a query leaves alone: everything but its own answer
QueryFrame ==
    UNCHANGED <<status, result, plan_approved, history, auto_approve, pc,
                attempt, returned, invoked, log, workerVars>>

\* a client calls handle.query(DAPERLWorkflow.get_status)
QueryStatus ==
    /\ call' = [fn |-> "get_status", value |-> GetStatus]
    /\ QueryFrame

\* QueryPlan that takes the reading of the plan for its approval
QueryPlanMut ==
    /\ call' = [fn |-> "get_plan", value |-> GetPlan]
    /\ plan_approved' = (plan_approved \/ GetPlan # None)
    /\ UNCHANGED <<status, result, history, auto_approve, pc, attempt,
                   returned, invoked, log, workerVars>>

\* a client calls handle.query(DAPERLWorkflow.get_plan)
QueryPlan ==
    /\ call' = [fn |-> "get_plan", value |-> GetPlan]
    /\ QueryFrame

\* a client calls handle.query(DAPERLWorkflow.get_results)
QueryResults ==
    /\ call' = [fn |-> "get_results", value |-> GetResults]
    /\ QueryFrame

QueryNext ==
    \/ Start
    \/ DetectionDone
    \/ AnalysisDone
    \/ PlanningDone
    \/ ExecutionDone
    \/ ReportingDone
    \/ LearningDone
    \/ ActivityRetry
    \/ ActivityExhausted
    \/ ApprovalTimeout
    \/ ApprovePlan
    \/ CancelWorkflow
    \/ QueryStatus
    \/ QueryPlan
    \/ QueryResults

\* the run with its queries
QuerySpec == Init /\ [][QueryNext]_vars

\* C14: a recorded phase result is never cleared or replaced, whatever
\* signals and queries are interleaved; what run() returns holds exactly the
\* results recorded so far (those of the history), as get_results gives them
\* at that moment and afterwards.
C14_PartialResultsPreserved ==
    /\ [][\A p \in PhaseSet : result[p] # None => result'[p] = result[p]]_vars
    /\ [][(pc # "done" /\ pc' = "done") =>
             /\ returned'.results = GetResults'
             /\ \A p \in PhaseSet :
                   returned'.results[p] = GetResult(history', p)]_vars
    /\ [](pc = "done" => returned.results = GetResults)

C14_Witness ==
    /\ pc = "done"
    /\ returned.status = "FAILED"
    /\ returned.results["analysis"] # None
    /\ returned.results["planning"] = None
    /\ call # None
    /\ call.fn = "get_results"
    /\ call.value = returned.results

\* C15: every run eventually returns, whatever signals are delivered, and it
\* returns once: a DAPERLResult exists exactly when run() has returned and is
\* never replaced.
C15_Termination ==
    /\ <>(pc = "done")
    /\ [](pc = "done" <=> returned # None)
    /\ [][returned # None => returned' = returned]_vars

C15_Witness ==
    /\ pc = "done"
    /\ returned # None
    /\ "cancel_pending" \in log
    /\ "approve_other" \in log

\* the summaries run() passes to _build_result
Summaries ==
    {"No problems detected", "Plan approval timeout",
     "Workflow completed successfully",
     "Workflow failed: Activity task failed", "Workflow failed: "}

\* C16: the DAPERLResult of a run that returned carries a status among
\* COMPLETED, FAILED and CANCELLED, the one get_status reports, and a summary.
C16_ResultStatus ==
    pc = "done" =>
        /\ returned.status \in Terminal
        /\ returned.status = GetStatus.status
        /\ returned.summary \in Summaries

C16_Witness ==
    /\ pc = "done"
    /\ "cancel_stage" \in log
    /\ returned.status = "COMPLETED"
    /\ returned.summary = "Workflow completed successfully"

\* C17: a step that answers a query changes no variable of the orchestrator;
\* the answer is the value of the fields at that moment, and a query repeated
\* with no step in between gets the same answer.
C17_QueriesReadOnly ==
    /\ [][call' # None => UNCHANGED <<progVars, invoked, log>>]_vars
    /\ [](call # None =>
             /\ call.fn = "get_status" =>
                   /\ call.value.status = status
                   /\ call.value.plan_approved = plan_approved
                   /\ call.value.planning_complete = (result["planning"] # None)
             /\ call.fn = "get_plan" => call.value = GetPlan
             /\ call.fn = "get_results" => call.value = result)
    /\ [][(call # None /\ call' # None /\ call'.fn = call.fn)
             => call'.value = call.value]_vars

C17_Witness ==
    /\ call # None
    /\ call.fn = "get_status"
    /\ call.value.status = "PENDING_APPROVAL"
    /\ ~call.value.plan_approved

\* C18: get_plan gives None as long as Planning has not completed; once
\* Planning has completed with a plan it gives that plan, the one in the
\* history, and the same one for the rest of the run.
C18_PlanAvailability ==
    /\ [](pc \in {"init", "detection", "analysis", "planning"} => GetPlan = None)
    /\ []((result["planning"] # None /\ result["planning"].plan # None) =>
             /\ GetPlan # None
             /\ GetPlan = GetResult(history, "planning").plan)
    /\ [][GetPlan # None => GetPlan' = GetPlan]_vars

C18_Witness ==
    /\ pc = "done"
    /\ GetPlan # None
    /\ Len(GetPlan.actions) = MaxActions
    /\ returned.status = "COMPLETED"

\* ---------------------------------------------------------------- agents alone
\* the confidences an LLM response can give and AgentResult accepts
Confidences == {Frac(n, ConfidenceSteps) : n \in 0..ConfidenceSteps}

\* the history the first three agents build from n problems and k actions
PipelineHistory(n, k) ==
    LET h1 == <<DetectionExecute(n)>>
        h2 == Append(h1, AnalysisExecute(h1))
    IN Append(h2, PlanningExecute(h2, k))

\* ExecutionAgent.execute called on a context
CallExecute ==
    /\ \E n \in 0..MaxProblems, k \in 0..MaxActions,
          outs \in [1..MaxActions -> Outcomes] :
          LET h == PipelineHistory(n, k) IN
             call' = [fn |-> "execute", history |-> h, outs |-> outs,
                      value |-> ExecutionExecute(h, outs)]
    /\ QueryFrame

\* an LLM-backed agent builds its result from a response with confidence c
CallStage ==
    /\ \E phase \in PhaseSet \ {"execution"}, c \in Confidences :
          call' = [fn |-> "stage", phase |-> phase, value |-> LLMEnvelope(c)]
    /\ QueryFrame

\* AnalysisAgent or PlanningAgent returns early
CallShortcut ==
    /\ \E phase \in {"analysis", "planning"} :
          call' = [fn |-> "shortcut", phase |-> phase,
                   value |-> ShortcutEnvelope]
    /\ QueryFrame

AgentNext ==
    \/ CallExecute
    \/ CallStage
    \/ CallShortcut

\* the agents called on their own
AgentSpec == Init /\ [][AgentNext]_vars

\* C19: for a plan of n actions of which any subset raises, the Execution
\* result lists n ActionResults in plan order, the i-th with the id of the
\* i-th action; every raising action has a failed ActionResult carrying the
\* error; success_count + failure_count = n and failure_count is at least
\* the number of raising actions.
C19_ExecutionIsolation ==
    (call # None /\ call.fn = "execute"
        /\ GetResult(call.history, "planning").plan # None) =>
        LET plan == GetResult(call.history, "planning").plan
            r == call.value
            n == Len(plan.actions)
            raising == {i \in 1..n : call.outs[i] = "raised"}
        IN /\ Len(r.actions_executed) = n
           /\ \A i \in 1..n : r.actions_executed[i].action_id = plan.actions[i]
           /\ \A i \in raising :
                 /\ ~r.actions_executed[i].success
                 /\ r.actions_executed[i].error # "None"
           /\ r.success_count + r.failure_count = n
           /\ r.failure_count >= Cardinality(raising)

C19_Witness ==
    /\ call # None
    /\ call.fn = "execute"
    /\ call.outs = [i \in 1..MaxActions |-> IF i = 1 THEN "raised" ELSE "ok"]
    /\ Len(call.value.actions_executed) = MaxActions
    /\ call.value.failure_count = 1

\* the fixed mapping of a confidence num / den to its level
FixedLevel(num, den) ==
    CASE 10 * num >= 9 * den -> "very_high"
      [] 10 * num < 9 * den /\ 10 * num >= 7 * den -> "high"
      [] 10 * num < 7 * den /\ 10 * num >= 5 * den -> "medium"
      [] 10 * num < 5 * den -> "low"

\* C20: every result a stage produces, the three early returns included,
\* has the confidence_level the fixed mapping gives its confidence:
\* >= 0.9 very_high, >= 0.7 high, >= 0.5 medium, otherwise low.
C20_ConfidenceLevel ==
    call # None =>
        /\ call.value.confidence.den > 0
        /\ call.value.confidence.num <= call.value.confidence.den
        /\ call.value.confidence_level =
               FixedLevel(call.value.confidence.num, call.value.confidence.den)

\* an LLM response gives the boundary confidence 0.9
C20_Witness ==
    /\ call # None
    /\ call.fn = "stage"
    /\ call.value.confidence.num * 10 = 9 * call.value.confidence.den
    /\ call.value.confidence_level = "very_high"

\* ---------------------------------------------------------------- learning storage
\* metric.model_dump(mode='json'): the item as a JSON object
ModelDump(item) == <<"json", item>>

\* ExecutionMetric(**m), LearningInsight(**i): the item of a JSON object
ModelLoad(d) == d[2]

\* _read_json: the list in the file, [] when the file does not parse
ReadJson(f) == IF f.torn THEN <<>> ELSE f.data

\* Python's data[-limit:] for limit >= 0; -0 is 0, so data[-0:] is data[0:]
SliceLast(data, limit) ==
    LET start == IF limit = 0 \/ limit >= Len(data)
                 THEN 0
                 ELSE Len(data) - limit
    IN SubSeq(data, start + 1, Len(data))

\* get_recent_metrics / get_insights on the list read from the file
GetRecent(data, limit) ==
    LET recent == IF Len(data) > limit THEN SliceLast(data, limit) ELSE data
    IN [i \in 1..Len(recent) |-> ModelLoad(recent[Len(recent) - i + 1])]

\* store calls begun so far
StoresBegun ==
    Len(stored["metric"]) + Len(stored["insight"])
        + Cardinality({c \in Callers : buf[c] # None})

\* what the storage leaves alone: the run and its attempts
WorkflowFrame ==
    UNCHANGED <<status, result, plan_approved, history, auto_approve, pc,
                attempt, returned, invoked, log, abandoned, learn>>

\* store_metric / store_insight up to the end of _read_metrics /
\* _read_insights; the lock is the caller's own instance's
StoreBegin(c) ==
    /\ buf[c] = None
    /\ StoresBegun < MaxStores
    /\ \E kind \in Kinds :
          buf' = [buf EXCEPT ![c] = [kind |-> kind, item |-> StoresBegun + 1,
                                     data |-> ReadJson(files[kind]),
                                     step |-> "read"]]
    /\ overlapped' = (overlapped \/ \E d \in Callers \ {c} : buf[d] # None)
    /\ call' = None
    /\ UNCHANGED <<files, stored>>
    /\ WorkflowFrame

\* _write_json opens the file for writing, which truncates it
StoreOpen(c) ==
    /\ buf[c] # None
    /\ buf[c].step = "read"
    /\ files' = [files EXCEPT ![buf[c].kind].torn = TRUE]
    /\ buf' = [buf EXCEPT ![c].step = "write"]
    /\ call' = None
    /\ UNCHANGED <<stored, overlapped>>
    /\ WorkflowFrame

\* json.dump has written the list with the item appended; the call returns
StoreClose(c) ==
    /\ buf[c] # None
    /\ buf[c].step = "write"
    /\ files' = [files EXCEPT ![buf[c].kind] =
                    [data |-> Append(buf[c].data, ModelDump(buf[c].item)),
                     torn |-> FALSE]]
    /\ stored' = [stored EXCEPT ![buf[c].kind] = Append(@, buf[c].item)]
    /\ buf' = [buf EXCEPT ![c] = None]
    /\ call' = None
    /\ UNCHANGED overlapped
    /\ WorkflowFrame

\* get_recent_metrics(limit) / get_insights(limit)
GetRecentCall(c) ==
    /\ buf[c] = None
    /\ \E kind \in Kinds, limit \in 0..(MaxStores + 1) :
          call' = [fn |-> "get_recent", kind |-> kind, limit |-> limit,
                   value |-> GetRecent(ReadJson(files[kind]), limit)]
    /\ UNCHANGED storeVars
    /\ WorkflowFrame

StorageNext ==
    \/ \E c \in Callers : StoreBegin(c)
    \/ \E c \in Callers : StoreOpen(c)
    \/ \E c \in Callers : StoreClose(c)
    \/ \E c \in Callers : GetRecentCall(c)

\* the learning storage with its callers
StorageSpec == Init /\ [][StorageNext]_vars

\* no store call has overlapped another and none is in flight
Sequential == ~overlapped /\ \A c \in Callers : buf[c] = None

\* the min(k, N) last items of seq, last first
MostRecent(seq, k) ==
    LET n == IF k < Len(seq) THEN k ELSE Len(seq)
    IN [i \in 1..n |-> seq[Len(seq) - i + 1]]

\* C21: after store calls that ran one after the other on an empty store,
\* get_recent_metrics(k) and get_insights(k) return, for every k >= 0, the
\* min(k, N) most recently stored items, most recent first.
C21_StorageRetrieval ==
    (call # None /\ call.fn = "get_recent" /\ Sequential) =>
        call.value = MostRecent(stored[call.kind], call.limit)

\* the values get_status can return
StatusAnswers ==
    [status : WorkflowStatus,
     detection_complete : BOOLEAN, analysis_complete : BOOLEAN,
     planning_complete : BOOLEAN, execution_complete : BOOLEAN,
     reporting_complete : BOOLEAN, learning_complete : BOOLEAN,
     plan_approved : BOOLEAN]

C23_ApprovalAfterPlan ==
    (/\ ~auto_approve
     /\ result["planning"] # None
     /\ result["planning"].plan # None
     /\ "execution" \in invoked) => "approve_pending" \in log

\* C24: while the stage of phase p is invoked (first attempt or retry) the
\* history holds one result for each phase before p, in phase order, and
\* none for p or a later phase; the history only grows by appending and
\* never holds two results of one phase.
C24_HistoryOrder ==
    /\ [](pc \in PhaseSet =>
            /\ Len(history) = PhaseIndex(pc) - 1
            /\ \A i \in 1..Len(history) : history[i].phase = Phases[i])
    /\ [](\A i, j \in 1..Len(history) :
             history[i].phase = history[j].phase => i = j)
    /\ [][\/ history' = history
          \/ /\ Len(history') = Len(history) + 1
             /\ SubSeq(history', 1, Len(history)) = history]_vars

\* the Learning stage is retried with the five earlier results in the history
C24_Witness ==
    /\ pc = "learning"
    /\ attempt = 2
    /\ Len(history) = 5
    /\ history[5].phase = "reporting"

\* ---------------------------------------------------------------- attempts
\* the attempts whose activity coroutine is running in a worker: the one the
\* driver awaits and the timed-out ones that nothing has stopped
InProgress ==
    abandoned \cup (IF pc \in PhaseSet
                    THEN {[phase |-> pc, attempt |-> attempt]}
                    ELSE {})

\* start_to_close_timeout elapses for the attempt in flight: the server fails
\* the attempt and applies the retry policy; the activities never heartbeat,
\* so the attempt's coroutine is not told and goes on
AttemptTimeout ==
    /\ pc \in PhaseSet
    /\ Cardinality(abandoned) < MaxAbandoned
    /\ abandoned' = abandoned \cup {[phase |-> pc, attempt |-> attempt]}
    /\ IF attempt < MaxAttempts
       THEN /\ attempt' = attempt + 1
            /\ UNCHANGED <<status, pc, returned, log>>
       ELSE /\ Return("FAILED", result,
                      "Workflow failed: Activity task timed out")
            /\ log' = log \cup {"exhausted"}
    /\ UNCHANGED <<result, plan_approved, history, auto_approve, invoked>>
    /\ call' = None
    /\ UNCHANGED <<storeVars, learn>>

\* a timed-out attempt comes to its end; its outcome is dropped
AbandonedEnds ==
    /\ \E a \in abandoned : abandoned' = abandoned \ {a}
    /\ call' = None
    /\ UNCHANGED <<status, result, plan_approved, history, auto_approve, pc,
                   attempt, returned, invoked, log, storeVars, learn>>

WorkerNext ==
    \/ Start
    \/ DetectionDone
    \/ AnalysisDone
    \/ PlanningDone
    \/ ExecutionDone
    \/ ReportingDone
    \/ LearningDone
    \/ ActivityRetry
    \/ ActivityExhausted
    \/ ApprovalTimeout
    \/ ApprovePlan
    \/ CancelWorkflow
    \/ AttemptTimeout
    \/ AbandonedEnds

\* the run with the attempts its activities leave in the workers
WorkerSpec == Init /\ [][WorkerNext]_vars

\* C25: at most one stage invocation is in progress at any moment, also
\* when an attempt times out and is retried, and the stage of a phase is in
\* progress only with the results of all earlier phases in the history.
C25_StrictlySequential ==
    /\ Cardinality(InProgress) <= 1
    /\ \A a \in InProgress : Len(history) >= PhaseIndex(a.phase) - 1

\* the non-terminal statuses in the order the claim gives them
StatusOrder ==
    <<"INITIALIZING", "DETECTING", "ANALYZING", "PLANNING", "PENDING_APPROVAL",
      "EXECUTING", "REPORTING", "LEARNING">>

NonTerminal == {StatusOrder[i] : i \in 1..Len(StatusOrder)}

StatusRank(s) == CHOOSE i \in 1..Len(StatusOrder) : StatusOrder[i] = s

\* C26: once get_status has reported a non-terminal status s, every later
\* non-terminal status it reports is s or comes after s in the order
\* INITIALIZING < DETECTING < ANALYZING < PLANNING < PENDING_APPROVAL <
\* EXECUTING < REPORTING < LEARNING, whatever signals are delivered.
C26_StatusForward ==
    \A s \in NonTerminal :
        [](GetStatus.status = s =>
              [](GetStatus.status \in NonTerminal =>
                    StatusRank(GetStatus.status) >= StatusRank(s)))

\* get_status reports REPORTING in a run that was sent a cancel during a stage
C26_Witness ==
    /\ call # None
    /\ call.fn = "get_status"
    /\ call.value.status = "REPORTING"
    /\ "cancel_stage" \in log

\* ---------------------------------------------------------------- pluggable planning
\* a PlanningResult without a plan: plan is Optional and defaults to None
NoPlan ==
    [phase |-> "planning", success |-> TRUE,
     message |-> "No problems to plan for", plan |-> None]

\* the Planning activity returns, run() lines 127-161, the result being any
\* PlanningResult a BasePlanningAgent can build
PluggablePlanningDone ==
    /\ pc = "planning"
    /\ \E r \in {PlanningExecute(history, k) : k \in 0..MaxActions}
                   \cup {NoPlan} :
          /\ result' = [result EXCEPT !["planning"] = r]
          /\ history' = Append(history, r)
          /\ IF GateRequired(auto_approve, r)
             THEN IF plan_approved
                  THEN /\ Invoke("execution", "EXECUTING")
                       /\ UNCHANGED plan_approved
                  ELSE /\ status' = "PENDING_APPROVAL"
                       /\ pc' = "gate"
                       /\ attempt' = 0
                       /\ UNCHANGED <<plan_approved, invoked>>
             ELSE /\ plan_approved' = TRUE
                  /\ Invoke("execution", "EXECUTING")
    /\ UNCHANGED <<auto_approve, returned, log>>
    /\ call' = None /\ UNCHANGED workerVars

PluggableNext ==
    \/ Start
    \/ DetectionDone
    \/ AnalysisDone
    \/ PluggablePlanningDone
    \/ ExecutionDone
    \/ ReportingDone
    \/ LearningDone
    \/ ActivityRetry
    \/ ActivityExhausted
    \/ ApprovalTimeout
    \/ ApprovePlan
    \/ CancelWorkflow

\* the run with a Planning stage that may return no plan
PluggableSpec == Init /\ [][PluggableNext]_vars

\* Planning has returned a result without a plan
NoPlanRun == result["planning"] # None /\ result["planning"].plan = None

\* C27: when Planning returns no plan the run does not stop and does not
\* wait at the gate: Execution is invoked at once, then Reporting and
\* Learning; Execution returns success with plan_id 'none' and no
\* ActionResults; unless a stage exhausts its attempts the run returns
\* COMPLETED with all six results.
C27_NoPlanNoEarlyExit ==
    /\ [][(pc = "planning" /\ result'["planning"] # None
              /\ result'["planning"].plan = None) =>
             (pc' = "execution" /\ status' = "EXECUTING" /\ plan_approved'
                 /\ "execution" \in invoked')]_vars
    /\ [](NoPlanRun =>
            /\ pc \in AfterPlanning \cup {"done"}
            /\ status # "PENDING_APPROVAL"
            /\ result["execution"] # None =>
                  /\ result["execution"].success
                  /\ result["execution"].plan_id = "none"
                  /\ result["execution"].actions_executed = <<>>
            /\ (pc = "done" /\ "exhausted" \notin log) =>
                  /\ returned.status = "COMPLETED"
                  /\ \A p \in PhaseSet : returned.results[p] # None
                  /\ \A i \in 1..Len(Phases) : history[i].phase = Phases[i]
                  /\ AfterPlanning \subseteq invoked)

\* a run without auto-approve whose Planning returned no plan has completed
C27_Witness ==
    /\ ~auto_approve
    /\ NoPlanRun
    /\ pc = "done"
    /\ returned.status = "COMPLETED"
    /\ returned.results["execution"].plan_id = "none"

\* C28: a Detection result has problems_detected true exactly when its list
\* of problems is not empty; Analysis is invoked exactly when Detection
\* returned at least one problem, and its history holds the Detection
\* result alone.
C28_AnalysisIffProblems ==
    /\ result["detection"] # None =>
          (result["detection"].problems_detected
              <=> Len(result["detection"].problems) > 0)
    /\ "analysis" \in invoked <=>
          (result["detection"] # None
              /\ Len(result["detection"].problems) >= 1)
    /\ pc = "analysis" => history = <<result["detection"]>>

\* Analysis is in flight on a Detection result with problems
C28_Witness ==
    /\ pc = "analysis"
    /\ Len(history) = 1
    /\ history[1].problems_detected
    /\ Len(history[1].problems) = MaxProblems

\* C29: for every plan, one without actions included, the Execution result
\* has success true exactly when no action failed, its counts are the
\* numbers of succeeded and failed ActionResults, and its confidence is
\* success_count divided by the number of ActionResults, 0 when there are
\* none.
C29_ExecutionSuccessFlag ==
    (call # None /\ call.fn = "execute"
        /\ GetResult(call.history, "planning").plan # None) =>
        LET r == call.value
            rs == r.actions_executed
            failures == Cardinality({i \in 1..Len(rs) : ~rs[i].success})
            successes == Cardinality({i \in 1..Len(rs) : rs[i].success})
        IN /\ r.failure_count = failures
           /\ r.success_count = successes
           /\ r.success <=> (failures = 0)
           /\ r.confidence.den > 0
           /\ IF Len(rs) = 0
              THEN r.confidence.num = 0
              ELSE r.confidence.num * Len(rs) = successes * r.confidence.den

\* a plan of MaxActions actions of which the last one fails
C29_Witness ==
    /\ call # None
    /\ call.fn = "execute"
    /\ Len(call.value.actions_executed) = MaxActions
    /\ call.value.failure_count = 1
    /\ call.value.success_count = MaxActions - 1
    /\ ~call.value.success
    /\ call.outs[MaxActions] = "failed"

\* ---------------------------------------------------------------- validation
\* what an LLM or an action handler hands back to a stage: a dict with the
\* fields the stage requires, a dict that lacks one, something that is not
\* a dict, or an ActionResult
RawOutputs == {"dict_ok", "dict_missing", "not_dict", "action_result"}

\* <Stage>Agent.validate_output: the LLM stages want a dict with their
\* required fields, ExecutionAgent wants an ActionResult
ValidateOutput(phase, raw) ==
    IF phase = "execution" THEN raw = "action_result" ELSE raw = "dict_ok"

\* what ExecutionAgent.execute makes of a handler's raw output: a dict is
\* read with .get("success", True), anything else raises on .get
OutcomesOf(raw) ==
    IF raw = "dict_ok" THEN {"ok", "failed"}
    ELSE IF raw = "dict_missing" THEN {"ok"}
    ELSE {"raised"}

\* an attempt of an LLM stage gets a raw output its validate_output rejects:
\* execute raises ValueError and the attempt fails
InvalidOutputFails ==
    /\ pc \in PhaseSet \ {"execution"}
    /\ \E raw \in RawOutputs :
          /\ ~ValidateOutput(pc, raw)
          /\ call' = [fn |-> "validate_output", phase |-> pc, raw |-> raw,
                      value |-> ValidateOutput(pc, raw)]
    /\ IF attempt < MaxAttempts
       THEN /\ attempt' = attempt + 1
            /\ UNCHANGED <<status, pc, returned, log>>
       ELSE /\ Return("FAILED", result,
                      "Workflow failed: Activity task failed")
            /\ log' = log \cup {"exhausted"}
    /\ UNCHANGED <<result, plan_approved, history, auto_approve, invoked>>
    /\ UNCHANGED workerVars

\* the Execution activity returns, its handlers having handed back raw
\* outputs that ExecutionAgent.validate_output rejects: execute never calls
\* validate_output, execution.py lines 63-112, run() lines 164-178
ExecutionUnvalidated ==
    /\ pc = "execution"
    /\ GetResult(history, "planning").plan # None
    /\ Len(GetResult(history, "planning").plan.actions) >= 1
    /\ \E raw \in RawOutputs :
          /\ ~ValidateOutput(pc, raw)
          /\ call' = [fn |-> "validate_output", phase |-> pc, raw |-> raw,
                      value |-> ValidateOutput(pc, raw)]
          /\ \E outs \in [1..MaxActions -> OutcomesOf(raw)] :
                LET r == ExecutionExecute(history, outs) IN
                   /\ result' = [result EXCEPT !["execution"] = r]
                   /\ history' = Append(history, r)
    /\ Invoke("reporting", "REPORTING")
    /\ UNCHANGED <<plan_approved, auto_approve, returned, log>>
    /\ UNCHANGED workerVars

ValidationNext ==
    \/ Start
    \/ DetectionDone
    \/ AnalysisDone
    \/ PlanningDone
    \/ ExecutionDone
    \/ ReportingDone
    \/ LearningDone
    \/ ActivityRetry
    \/ ActivityExhausted
    \/ ApprovalTimeout
    \/ ApprovePlan
    \/ CancelWorkflow
    \/ InvalidOutputFails
    \/ ExecutionUnvalidated

\* the run with the raw outputs its stages reject or should reject
ValidationSpec == Init /\ [][ValidationNext]_vars

\* C30: for each of the six stages, an attempt whose raw output fails the
\* stage's validate_output fails (the next attempt starts, or the run
\* fails after the third) and records no result: neither the phase results
\* nor the history change.
C30_InvalidOutputFailsAttempt ==
    [][(call' # None /\ call'.fn = "validate_output" /\ ~call'.value) =>
          /\ result' = result
          /\ history' = history
          /\ \/ pc' = pc /\ attempt' = attempt + 1
             \/ attempt = MaxAttempts /\ pc' = "done"
                   /\ returned'.status = "FAILED"]_vars

\* ---------------------------------------------------------------- learning stage
\* the metric _gather_execution_metrics builds for this run: its workflow_id
\* is the run's, unlike that of any metric an earlier run stored
OwnMetric == MaxStores + 1

\* store_metric / store_insight run alone: read, append, write
StoreItem(kind, item) ==
    /\ files' = [files EXCEPT ![kind] =
                    [data |-> Append(ReadJson(files[kind]), ModelDump(item)),
                     torn |-> FALSE]]
    /\ stored' = [stored EXCEPT ![kind] = Append(@, item)]

\* the workflow_ids of the metrics or insights in a list of loaded items
ItemsOf(seq) == {seq[i] : i \in 1..Len(seq)}

\* how many times the item is in the file
CountIn(kind, item) ==
    Cardinality({i \in 1..Len(ReadJson(files[kind])) :
                    ModelLoad(ReadJson(files[kind])[i]) = item})

\* the run's fields, which the steps inside a Learning attempt leave alone
RunFrame ==
    UNCHANGED <<status, result, plan_approved, history, auto_approve, pc,
                attempt, returned, invoked, log>>

\* the Learning activity of a run that ended before this one stored its metric
PriorRunStores ==
    /\ pc = "init"
    /\ Len(stored["metric"]) < MaxStores
    /\ StoreItem("metric", Len(stored["metric"]) + 1)
    /\ call' = None
    /\ UNCHANGED <<buf, overlapped, abandoned, learn>>
    /\ RunFrame

\* LearningAgent.execute lines 60-65 of the attempt in flight:
\* _gather_execution_metrics, then store_metric
LearningPersist ==
    /\ pc = "learning"
    /\ learn = None
    /\ StoreItem("metric", OwnMetric)
    /\ learn' = [step |-> "stored"]
    /\ call' = None
    /\ UNCHANGED <<buf, overlapped, abandoned>>
    /\ RunFrame

\* LearningAgent.execute lines 67-70: get_recent_metrics(limit=10)
LearningFetch ==
    /\ pc = "learning"
    /\ learn # None
    /\ learn.step = "stored"
    /\ learn' = [step |-> "fetched",
                 historical_metrics |->
                     GetRecent(ReadJson(files["metric"]), RecentLimit)]
    /\ call' = None
    /\ UNCHANGED <<files, buf, stored, overlapped, abandoned>>
    /\ RunFrame

\* the attempt fails after store_metric: the LLM call raises or its
\* response fails validate_output, lines 79-86; the retry policy applies
LearningAttemptFails ==
    /\ pc = "learning"
    /\ learn # None
    /\ IF attempt < MaxAttempts
       THEN /\ attempt' = attempt + 1
            /\ UNCHANGED <<status, pc, returned, log>>
       ELSE /\ Return("FAILED", result,
                      "Workflow failed: Activity task failed")
            /\ log' = log \cup {"exhausted"}
    /\ learn' = None
    /\ call' = None
    /\ UNCHANGED <<result, plan_approved, history, auto_approve, invoked>>
    /\ UNCHANGED <<files, buf, stored, overlapped, abandoned>>

\* the attempt stores its insights and returns, learning.py lines 88-116;
\* run() lines 195-211
LearningCompletes ==
    /\ pc = "learning"
    /\ learn # None
    /\ learn.step = "fetched"
    /\ \E n \in 0..MaxInsights :
          IF n = 0
          THEN UNCHANGED <<files, stored>>
          ELSE StoreItem("insight", Len(stored["insight"]) + 1)
    /\ LET r == LearningExecute(history)
           res == [result EXCEPT !["learning"] = r]
       IN /\ result' = res
          /\ history' = Append(history, r)
          /\ Return("COMPLETED", res, "Workflow completed successfully")
    /\ learn' = [learn EXCEPT !.step = "returned"]
    /\ call' = None
    /\ UNCHANGED <<plan_approved, auto_approve, invoked, log>>
    /\ UNCHANGED <<buf, overlapped, abandoned>>

\* an attempt of a stage before Learning fails and is retried
StageRetry == pc # "learning" /\ ActivityRetry

\* the last attempt of a stage before Learning fails
StageExhausted == pc # "learning" /\ ActivityExhausted

LearningNext ==
    \/ PriorRunStores
    \/ Start
    \/ DetectionDone
    \/ AnalysisDone
    \/ PlanningDone
    \/ ExecutionDone
    \/ ReportingDone
    \/ StageRetry
    \/ StageExhausted
    \/ ApprovalTimeout
    \/ ApprovePlan
    \/ CancelWorkflow
    \/ LearningPersist
    \/ LearningFetch
    \/ LearningAttemptFails
    \/ LearningCompletes

\* the run with what its Learning stage does to the metric store
LearningSpec == Init /\ [][LearningNext]_vars

\* C31: the historical metrics a Learning attempt fetches are metrics of
\* earlier runs only: the run's own metric is not among them.
C31_HistoricalExcludesOwn ==
    (learn # None /\ learn.step \in {"fetched", "returned"}) =>
        OwnMetric \notin ItemsOf(learn.historical_metrics)

\* C32: after the run has terminated the metric store holds at most one
\* metric of the run, also when Learning attempts failed after persisting
\* and were retried; a failed Learning attempt leaves the store as it was
\* before the attempt, so no attempt starts with a metric of the run in it.
C32_OneMetricPerRun ==
    /\ pc = "done" => CountIn("metric", OwnMetric) <= 1
    /\ (pc = "learning" /\ learn = None) => CountIn("metric", OwnMetric) = 0

\* C33: when two store_metric calls made through two JSONLearningStorage
\* instances on the same file have both returned, the metrics of both are
\* in the store.
C33_NoLostMetric ==
    (\A c \in Callers : buf[c] = None) =>
        \A i \in 1..Len(stored["metric"]) :
            CountIn("metric", stored["metric"][i]) >= 1

\* C34: whenever the Execution stage has been invoked, or the status is
\* EXECUTING, REPORTING or LEARNING, plan_approved is true; once true,
\* plan_approved never becomes false again.
C34_ExecutionNeedsFlag ==
    /\ []((\/ "execution" \in invoked
           \/ status \in {"EXECUTING", "REPORTING", "LEARNING"})
             => plan_approved)
    /\ [][plan_approved => plan_approved']_vars

\* Execution is in flight after an approval given at the gate
C34_Witness ==
    /\ ~auto_approve
    /\ pc = "execution"
    /\ status = "EXECUTING"
    /\ plan_approved
    /\ log = {"approve_pending"}

\* the plans Planning can return
Plans == {ParsePlan(k) : k \in 0..MaxActions}

\* C35: the plan get_plan returned while the status was PENDING_APPROVAL is
\* the plan the Execution stage finds in its history and the plan whose
\* actions it runs; no signal or query changes it in between.
C35_ExecutedPlanIsApprovedPlan ==
    \A p \in Plans :
        []((status = "PENDING_APPROVAL" /\ GetPlan = p) =>
              [](/\ GetPlan = p
                 /\ pc = "execution" =>
                       GetResult(history, "planning").plan = p
                 /\ result["execution"] # None =>
                       /\ result["execution"].plan_id = p.id
                       /\ [i \in 1..Len(result["execution"].actions_executed)
                              |-> result["execution"].actions_executed[i].action_id]
                             = p.actions))

\* Execution has run the plan that was approved at the gate
C35_Witness ==
    /\ log = {"approve_pending"}
    /\ result["execution"] # None
    /\ Len(result["execution"].actions_executed) = MaxActions
    /\ call # None
    /\ call.fn = "get_plan"
    /\ call.value = result["planning"].plan

\* the '<phase>_complete' flag of an answer of get_status
FlagOf(answer, phase) ==
    CASE phase = "detection" -> answer.detection_complete
      [] phase = "analysis" -> answer.analysis_complete
      [] phase = "planning" -> answer.planning_complete
      [] phase = "execution" -> answer.execution_complete
      [] phase = "reporting" -> answer.reporting_complete
      [] phase = "learning" -> answer.learning_complete

\* C36: in every state the phases whose flag get_status reports true are
\* the first n of Detection, Analysis, Planning, Execution, Reporting,
\* Learning for some n, and a flag that is true stays true.
C36_FlagsFormPrefix ==
    /\ [](\A i, j \in 1..Len(Phases) :
             (i < j /\ FlagOf(GetStatus, Phases[j])) =>
                 FlagOf(GetStatus, Phases[i]))
    /\ [][\A p \in PhaseSet :
             FlagOf(GetStatus, p) => FlagOf(GetStatus', p)]_vars

\* get_status answers during Reporting, after an early approval
C36_Witness ==
    /\ call # None
    /\ call.fn = "get_status"
    /\ call.value.status = "REPORTING"
    /\ call.value.execution_complete
    /\ ~call.value.reporting_complete
    /\ "approve_other" \in log

\* the status run() assigns before it invokes the stage of a phase
RunningStatus(phase) ==
    CASE phase = "detection" -> "DETECTING"
      [] phase = "analysis" -> "ANALYZING"
      [] phase = "planning" -> "PLANNING"
      [] phase = "execution" -> "EXECUTING"
      [] phase = "reporting" -> "REPORTING"
      [] phase = "learning" -> "LEARNING"

\* C37: when get_status reports the status of a phase, the flags of the
\* earlier phases are true and the flags of that phase and of the later ones
\* are false; when it reports PENDING_APPROVAL, planning_complete is true,
\* execution_complete is false and get_plan returns a plan.
C37_StatusAndFlagsAgree ==
    /\ \A i \in 1..Len(Phases) :
          GetStatus.status = RunningStatus(Phases[i]) =>
             \A j \in 1..Len(Phases) :
                FlagOf(GetStatus, Phases[j]) <=> (j < i)
    /\ GetStatus.status = "PENDING_APPROVAL" =>
          /\ GetStatus.planning_complete
          /\ ~GetStatus.execution_complete
          /\ GetPlan # None

\* the status of a phase is reported again after a cancel signal had
\* replaced the status of the phase before it
C37_Witness ==
    /\ "cancel_stage" \in log
    /\ call # None
    /\ call.fn = "get_status"
    /\ call.value.status = "EXECUTING"
    /\ call.value.planning_complete
    /\ ~call.value.execution_complete

\* the phases whose result a workflow result carries
PresentIn(wr) == {p \in PhaseSet : wr.results[p] # None}

\* C38: a workflow result is COMPLETED only if it carries all six phase
\* results, or only a Detection result that reports no problems; a
\* CANCELLED workflow result carries no Execution, Reporting or Learning
\* result.
C38_CompletedMeansFinished ==
    returned # None =>
       /\ returned.status = "COMPLETED" =>
             \/ PresentIn(returned) = PhaseSet
             \/ /\ PresentIn(returned) = {"detection"}
                /\ NoProblems(returned.results["detection"])
       /\ returned.status = "CANCELLED" =>
             PresentIn(returned) \cap {"execution", "reporting", "learning"} = {}

\* a run that was sent cancel_workflow during a stage returns COMPLETED with
\* six results
C38_Witness ==
    /\ returned # None
    /\ returned.status = "COMPLETED"
    /\ PresentIn(returned) = PhaseSet
    /\ "cancel_stage" \in log

\* C39: a run returns FAILED only if some stage invocation used up its
\* MaxAttempts attempts; the approval wait does not end a run FAILED.
C39_FailedOnlyOnExhaustion ==
    (returned # None /\ returned.status = "FAILED") => "exhausted" \in log

====
